---- MODULE Spec2Model ----
(***************************************************************************)
(* Model of mark.go: a Markov chain text generator with a persisted model  *)
(* file.  "read" mode: NewChain, Build once per corpus, WriteModel.        *)
(* "generate" mode: ReadChainFromFile, Generate.                           *)
(*                                                                         *)
(* A Go string is modelled as a sequence of one-character strings, so that *)
(* strings.Join, strings.Split, strings.Fields, strconv.Quote,             *)
(* strconv.Itoa and strconv.Atoi are computed character by character.      *)
(* The empty Go string is the empty sequence.  A Go map is a function      *)
(* whose DOMAIN is the set of keys present.                                *)
(***************************************************************************)
EXTENDS Integers, Sequences, FiniteSets, TLC

\* ---------------------------------------------------------------- bounds
MaxOrder == 2
MaxTokens == 4
MaxCorpora == 2
MaxWords == 3

\* ------------------------------------------------------------ characters
SP == " "
QT == "\""
DigitChars == <<"0", "1", "2", "3", "4", "5", "6", "7", "8", "9">>

EmptyStr == <<>>
Marker == <<QT, QT>>

\* The tokens fmt.Fscan can deliver here: non-empty and free of whitespace.
\* One of them is the two-character text that strconv.Quote("") produces.
Tokens == {<<"a">>, <<"b">>, Marker}

\* ---------------------------------------------------------- Go library
RECURSIVE Join(_, _)
Join(elems, sep) ==
    IF Len(elems) = 0 THEN EmptyStr
    ELSE IF Len(elems) = 1 THEN elems[1]
    ELSE elems[1] \o <<sep>> \o Join(Tail(elems), sep)

\* strings.Split(s, sep) for a one-character separator: always at least one
\* element, empty elements kept.
RECURSIVE SplitFrom(_, _, _, _)
SplitFrom(s, sep, i, cur) ==
    IF i > Len(s) THEN <<cur>>
    ELSE IF s[i] = sep THEN <<cur>> \o SplitFrom(s, sep, i + 1, EmptyStr)
    ELSE SplitFrom(s, sep, i + 1, Append(cur, s[i]))

Split(s, sep) == SplitFrom(s, sep, 1, EmptyStr)

\* strings.Fields(s): split around runs of white space, empty elements dropped.
Fields(s) == SelectSeq(Split(s, SP), LAMBDA f : f # EmptyStr)

\* strconv.Quote(s) for a string with nothing to escape.
Quote(s) == <<QT>> \o s \o <<QT>>

IsDigit(ch) == \E d \in 1..10 : DigitChars[d] = ch
DigitVal(ch) == (CHOOSE d \in 1..10 : DigitChars[d] = ch) - 1

RECURSIVE Digits(_)
Digits(n) ==
    IF n < 10 THEN <<DigitChars[n + 1]>>
    ELSE Append(Digits(n \div 10), DigitChars[(n % 10) + 1])

Itoa(n) == IF n < 0 THEN <<"-">> \o Digits(0 - n) ELSE Digits(n)

RECURSIVE DigitsValue(_, _)
DigitsValue(s, acc) ==
    IF Len(s) = 0 THEN acc
    ELSE DigitsValue(Tail(s), acc * 10 + DigitVal(s[1]))

\* strconv.Atoi: optional sign, then one or more decimal digits; on a syntax
\* error the value returned is 0 and err is set.
Atoi(s) ==
    LET signed == Len(s) > 0 /\ s[1] \in {"+", "-"}
        body == IF signed THEN Tail(s) ELSE s
        good == Len(body) > 0 /\ \A i \in 1..Len(body) : IsDigit(body[i])
        mag == IF good THEN DigitsValue(body, 0) ELSE 0
    IN [ok |-> good,
        val |-> IF signed /\ s[1] = "-" THEN 0 - mag ELSE mag]

\* ------------------------------------------------------------ Go maps
Has(m, key) == key \in DOMAIN m

Put(m, key, val) ==
    [x \in (DOMAIN m) \cup {key} |-> IF x = key THEN val ELSE m[x]]

\* m[key] of a map[string][]string: nil (the empty slice) when absent.
SliceAt(m, key) == IF Has(m, key) THEN m[key] ELSE <<>>

\* m[key] of a map[string]int: 0 when absent.
IntAt(m, key) == IF Has(m, key) THEN m[key] ELSE 0

EmptyMap == [x \in {} |-> 0]

\* m[key] of a map[string]map[string]int: nil (no entries) when absent.
MapAt(m, key) == IF Has(m, key) THEN m[key] ELSE EmptyMap

\* ---------------------------------------------------------------- Prefix
\* make(Prefix, n): n empty strings.
MakePrefix(n) == [i \in 1..n |-> EmptyStr]

String(p) == Join(p, SP)

\* copy(p, p[1:]); p[len(p)-1] = word
Shift(p, word) == [i \in 1..Len(p) |-> IF i = Len(p) THEN word ELSE p[i + 1]]

\* ----------------------------------------------------------------- Chain
NewChain(prefixLen) ==
    [chain |-> EmptyMap, prefixLen |-> prefixLen, text |-> <<>>,
     pairmap |-> EmptyMap, prefixStorage |-> <<>>]

\* Find gone wrong: only the element appended last is compared.
FindLast(slice, val) == Len(slice) > 0 /\ slice[Len(slice)] = val

Find(slice, val) == \E i \in 1..Len(slice) : slice[i] = val

\* BuildUpdate gone wrong: a suffix is appended to chain[key] only when the
\* key is new, so later suffixes of a known key are never listed.
BuildUpdateFirstSuffixOnly(ch, p, s) ==
    LET key == String(p)
        inner == MapAt(ch.pairmap, key)
        pm == Put(ch.pairmap, key, Put(inner, s, IntAt(inner, s) + 1))
        cn == IF ~Has(ch.chain, key)
              THEN Put(ch.chain, key, <<s>>)
              ELSE ch.chain
    IN [ch EXCEPT !.pairmap = pm, !.chain = cn]

\* One iteration of the loop of Build once Fscan has delivered s: the chain
\* after the updates of pairmap and chain under the key of window p.
BuildUpdate(ch, p, s) ==
    LET key == String(p)
        inner == MapAt(ch.pairmap, key)
        pm == Put(ch.pairmap, key, Put(inner, s, IntAt(inner, s) + 1))
        cn == IF ~Find(SliceAt(ch.chain, key), s)
              THEN Put(ch.chain, key, Append(SliceAt(ch.chain, key), s))
              ELSE ch.chain
    IN [ch EXCEPT !.pairmap = pm, !.chain = cn]

\* ----------------------------------------------------------- WriteModel
\* The fields of the line WriteModel prints for window pre: the prefix words,
\* then every word of chain[key], each with its count from pairmap.
PrefixFields(pre) ==
    [w \in 1..Len(pre) |-> IF pre[w] = EmptyStr THEN Quote(pre[w]) ELSE pre[w]]

RECURSIVE SuffixFields(_, _, _)
SuffixFields(ch, key, choices) ==
    IF Len(choices) = 0 THEN <<>>
    ELSE LET word == choices[1]
             here == IF word = EmptyStr
                     THEN <<Quote(word)>>
                     ELSE <<word, Itoa(IntAt(MapAt(ch.pairmap, key), word))>>
         IN here \o SuffixFields(ch, key, Tail(choices))

FormatLine(ch, pre) ==
    Join(PrefixFields(pre) \o SuffixFields(ch, String(pre), SliceAt(ch.chain, String(pre))), SP)

\* The inner loop of WriteModel over one text, from index idx with window pre;
\* st holds prefixStorage and the lines printed so far.
RECURSIVE ReplayText(_, _, _, _, _)
ReplayText(ch, txt, idx, pre, st) ==
    IF idx > Len(txt) THEN st
    ELSE IF Len(SliceAt(ch.chain, String(pre))) = 0 THEN st
    ELSE LET next == txt[idx]
             st2 == IF ~Find(st.prefixStorage, String(pre))
                    THEN [prefixStorage |-> Append(st.prefixStorage, String(pre)),
                          lines |-> Append(st.lines, FormatLine(ch, pre))]
                    ELSE st
         IN ReplayText(ch, txt, idx + 1, Shift(pre, next), st2)

\* The outer loop of WriteModel: every text, each from a fresh window.
RECURSIVE ReplayAll(_, _, _)
ReplayAll(ch, j, st) ==
    IF j > Len(ch.text) THEN st
    ELSE ReplayAll(ch, j + 1,
                   ReplayText(ch, ch.text[j], 1, MakePrefix(ch.prefixLen), st))

WriteResult(ch) ==
    ReplayAll(ch, 1, [prefixStorage |-> ch.prefixStorage, lines |-> <<>>])

\* ---------------------------------------------------- ReadChainFromFile
\* "fix if quotes in line"
Unquote(fields) ==
    [x \in 1..Len(fields) |->
        IF fields[x] = Quote(EmptyStr)
        THEN SubSeq(fields[x], 2, Len(fields[x]) - 1)
        ELSE fields[x]]

\* The loop over the suffix strings of one line, from iteration it.
RECURSIVE ReadSuffixes(_, _, _, _, _)
ReadSuffixes(inner, fields, order, numSuffix, it) ==
    IF it >= numSuffix THEN inner
    ELSE LET freq == Atoi(fields[order + 2 * it + 2]).val
             suf == fields[order + 2 * it + 1]
         IN ReadSuffixes(Put(inner, suf, IntAt(inner, suf) + freq),
                         fields, order, numSuffix, it + 1)

\* One iteration of the scan loop.  fields[0:order] panics on a short line.
ReadLine(ch, line) ==
    LET fields == Unquote(Fields(line))
        order == ch.prefixLen
    IN IF Len(fields) < order
       THEN [panic |-> TRUE, ch |-> ch]
       ELSE LET pre == Join(SubSeq(fields, 1, order), SP)
                numSuffix == (Len(fields) - order) \div 2
                inner == ReadSuffixes(MapAt(ch.pairmap, pre), fields, order, numSuffix, 0)
            IN [panic |-> FALSE,
                ch |-> [ch EXCEPT !.prefixStorage = Append(@, pre),
                                  !.pairmap = Put(@, pre, inner)]]

RECURSIVE ReadLines(_, _, _)
ReadLines(ch, lines, idx) ==
    IF idx > Len(lines) THEN [panic |-> FALSE, ch |-> ch]
    ELSE LET r == ReadLine(ch, lines[idx])
         IN IF r.panic THEN r ELSE ReadLines(r.ch, lines, idx + 1)

\* The whole read of a file given as its lines.  Text() of a file without a
\* first line is the empty string, which Atoi rejects.
ReadResult(f) ==
    LET first == IF Len(f) = 0 THEN EmptyStr ELSE f[1]
        hdr == Atoi(first)
    IN IF ~hdr.ok
       THEN [panic |-> TRUE, ch |-> NewChain(0)]
       ELSE ReadLines(NewChain(hdr.val), f, 2)

\* ---------------------------------------------------------------- Generate
Repeat(word, cnt) == [j \in 1..cnt |-> word]

\* keys: every suffix once per recorded occurrence.  The order in which the
\* map is ranged over does not matter to a uniform draw over the whole list.
RECURSIVE Pool(_, _)
Pool(choices, rest) ==
    IF rest = {} THEN <<>>
    ELSE LET key == CHOOSE x \in rest : TRUE
         IN Repeat(key, choices[key]) \o Pool(choices, rest \ {key})

Keys(choices) == Pool(choices, DOMAIN choices)

\* ------------------------------------------------------- model files
A == <<"a">>
B == <<"b">>
Line(fields) == Join(fields, SP)

\* Model files handed to "generate" that no WriteModel of this model wrote.
UserFiles ==
    { <<>>,
      <<Line(<<<<"x">>>>)>>,
      <<Itoa(1)>>,
      <<Itoa(1), Line(<<A, B, Itoa(1)>>), Line(<<A, B, Itoa(2)>>), Line(<<B, A, Itoa(1)>>)>>,
      <<Itoa(1), Line(<<A, B, Itoa(0)>>)>>,
      <<Itoa(1), Line(<<A, B, Itoa(0 - 1)>>), Line(<<B, A, Itoa(1)>>)>>,
      <<Itoa(1), Line(<<A, B, <<"x">>>>), Line(<<B, A, Itoa(1)>>)>>,
      <<Itoa(1), Line(<<A, B, Itoa(1), A>>), Line(<<B, A, Itoa(1)>>)>>,
      <<Itoa(2), Line(<<A, B, A, Itoa(1)>>), Line(<<A>>), Line(<<B, A, B, Itoa(1)>>)>>,
      <<Itoa(2), Line(<<Marker, Marker, A, Itoa(2)>>),
                 Line(<<Marker, A, B, Itoa(1), A, Itoa(1)>>),
                 Line(<<A, B, A, Itoa(1)>>)>> }

\* ------------------------------------------------------------------ state
\* pc        where the program is: "idle" between Build calls, "build" inside
\*           the loop of Build, "filed" a model file exists, "loaded" after
\*           ReadChainFromFile, "gen" inside the loop of Generate, "done",
\*           "panic"
\* c         the Chain of read mode;  p, currtext  the locals of Build
\* file      the lines of the model file;  origin  who wrote it
\* g         the Chain ReadChainFromFile returned
\* n, words, gp, i   the argument and the locals of Generate
\* fault     which panic ended the run;  result  what Generate returned
VARIABLES pc, c, p, currtext, file, origin, g, n, words, gp, i, fault, result

vars == <<pc, c, p, currtext, file, origin, g, n, words, gp, i, fault, result>>

buildVars == <<c, p, currtext>>
genVars == <<n, words, gp, i, result>>

NumTokens == Len(currtext) +
    (LET RECURSIVE Sum(_)
         Sum(j) == IF j = 0 THEN 0 ELSE Len(c.text[j]) + Sum(j - 1)
     IN Sum(Len(c.text)))

Init ==
    /\ p = <<>>
    /\ currtext = <<>>
    /\ g = NewChain(0)
    /\ n = 0 /\ words = <<>> /\ gp = <<>> /\ i = 0
    /\ fault = "none" /\ result = <<>>
    /\ \/ /\ pc = "idle"
          /\ \E order \in 1..MaxOrder : c = NewChain(order)
          /\ file = <<>>
          /\ origin = "none"
       \/ /\ pc = "filed"
          /\ c = NewChain(1)
          /\ file \in UserFiles
          /\ origin = "user"

\* BuildStart gone wrong: the window of the previous corpus is kept.
BuildStartKeepWindow ==
    /\ pc = "idle"
    /\ Len(c.text) < MaxCorpora
    /\ p' = IF Len(p) = c.prefixLen THEN p ELSE MakePrefix(c.prefixLen)
    /\ currtext' = <<>>
    /\ pc' = "build"
    /\ UNCHANGED <<c, file, origin, g, fault>>
    /\ UNCHANGED genVars

\* Build, entry: the window of prefixLen empty strings and an empty currtext.
BuildStart ==
    /\ pc = "idle"
    /\ Len(c.text) < MaxCorpora
    /\ p' = MakePrefix(c.prefixLen)
    /\ currtext' = <<>>
    /\ pc' = "build"
    /\ UNCHANGED <<c, file, origin, g, fault>>
    /\ UNCHANGED genVars

\* Build, one iteration of the loop: Fscan delivered s.
BuildToken(s) ==
    /\ pc = "build"
    /\ NumTokens < MaxTokens
    /\ currtext' = Append(currtext, s)
    /\ c' = BuildUpdate(c, p, s)
    /\ p' = Shift(p, s)
    /\ UNCHANGED <<pc, file, origin, g, fault>>
    /\ UNCHANGED genVars

\* Build, Fscan failed (end of input): the loop breaks, the text is kept.
BuildEnd ==
    /\ pc = "build"
    /\ c' = [c EXCEPT !.text = Append(@, currtext)]
    /\ pc' = "idle"
    /\ UNCHANGED <<p, currtext, file, origin, g, fault>>
    /\ UNCHANGED genVars

\* WriteModel gone wrong: the prefixes already printed are kept in a local
\* list and the Chain's prefixStorage is left as it was.
WriteModelLocalStorage ==
    /\ pc = "idle"
    /\ file' = <<Itoa(c.prefixLen)>> \o WriteResult(c).lines
    /\ c' = c
    /\ origin' = "WriteModel"
    /\ pc' = "filed"
    /\ UNCHANGED <<p, currtext, g, fault>>
    /\ UNCHANGED genVars

WriteModel ==
    /\ pc = "idle"
    /\ LET w == WriteResult(c)
       IN /\ file' = <<Itoa(c.prefixLen)>> \o w.lines
          /\ c' = [c EXCEPT !.prefixStorage = w.prefixStorage]
    /\ origin' = "WriteModel"
    /\ pc' = "filed"
    /\ UNCHANGED <<p, currtext, g, fault>>
    /\ UNCHANGED genVars

ReadChainFromFile ==
    /\ pc = "filed"
    /\ LET r == ReadResult(file)
       IN IF r.panic
          THEN /\ pc' = "panic"
               /\ fault' = "read"
               /\ g' = g
          ELSE /\ pc' = "loaded"
               /\ fault' = fault
               /\ g' = r.ch
    /\ UNCHANGED <<file, origin>>
    /\ UNCHANGED buildVars
    /\ UNCHANGED genVars

\* Generate, up to the loop.  rand.Intn(0) panics.
GenerateStart(numWords) ==
    /\ pc = "loaded"
    /\ n' = numWords
    /\ IF Len(g.prefixStorage) = 0
       THEN /\ pc' = "panic"
            /\ fault' = "Intn(len(prefixStorage))"
            /\ UNCHANGED <<words, gp, i>>
       ELSE \E randIndex \in 1..Len(g.prefixStorage) :
            /\ gp' = Split(g.prefixStorage[randIndex], SP)
            /\ words' = <<String(gp')>>
            /\ i' = 0
            /\ pc' = "gen"
            /\ fault' = fault
    /\ UNCHANGED <<file, origin, g, result>>
    /\ UNCHANGED buildVars

LoopRuns == i < n - g.prefixLen

\* GenerateStep gone wrong: the drawn suffix is emitted but the window is not
\* shifted.
GenerateStepNoShift ==
    /\ pc = "gen"
    /\ LoopRuns
    /\ LET choices == MapAt(g.pairmap, String(gp))
           keys == Keys(choices)
       IN /\ Cardinality(DOMAIN choices) # 0
          /\ IF Len(keys) = 0
             THEN /\ pc' = "panic"
                  /\ fault' = "Intn(len(keys))"
                  /\ UNCHANGED <<words, gp, i>>
             ELSE \E r \in 1..Len(keys) :
                  /\ words' = Append(words, keys[r])
                  /\ gp' = gp
                  /\ i' = i + 1
                  /\ pc' = pc
                  /\ fault' = fault
    /\ UNCHANGED <<file, origin, g, n, result>>
    /\ UNCHANGED buildVars

\* Generate, one iteration that draws a suffix.
GenerateStep ==
    /\ pc = "gen"
    /\ LoopRuns
    /\ LET choices == MapAt(g.pairmap, String(gp))
           keys == Keys(choices)
       IN /\ Cardinality(DOMAIN choices) # 0
          /\ IF Len(keys) = 0
             THEN /\ pc' = "panic"
                  /\ fault' = "Intn(len(keys))"
                  /\ UNCHANGED <<words, gp, i>>
             ELSE \E r \in 1..Len(keys) :
                  /\ words' = Append(words, keys[r])
                  /\ gp' = Shift(gp, keys[r])
                  /\ i' = i + 1
                  /\ pc' = pc
                  /\ fault' = fault
    /\ UNCHANGED <<file, origin, g, n, result>>
    /\ UNCHANGED buildVars

\* Generate, leaving the loop (limit reached or end of chain) and returning.
GenerateReturn ==
    /\ pc = "gen"
    /\ \/ ~LoopRuns
       \/ Cardinality(DOMAIN MapAt(g.pairmap, String(gp))) = 0
    /\ result' = Join(words, SP)
    /\ pc' = "done"
    /\ UNCHANGED <<file, origin, g, n, words, gp, i, fault>>
    /\ UNCHANGED buildVars

Next ==
    \/ BuildStart
    \/ \E s \in Tokens : BuildToken(s)
    \/ BuildEnd
    \/ WriteModel
    \/ ReadChainFromFile
    \/ \E numWords \in 0..MaxWords : GenerateStart(numWords)
    \/ GenerateStep
    \/ GenerateReturn

Spec == Init /\ [][Next]_vars

\* =================================================================
\* Reference notions, computed from the ingested token streams alone.

\* The corpora ingested so far, the one being scanned included.
Corpora == IF pc = "build" THEN Append(c.text, currtext) ELSE c.text

\* The order tokens before token q of corpus j, empty strings where the corpus
\* has not yet supplied that many.
WindowAt(j, q) ==
    [x \in 1..c.prefixLen |->
        LET at == q - c.prefixLen - 1 + x
        IN IF at >= 1 THEN Corpora[j][at] ELSE EmptyStr]

\* Every position of every corpus where a window is followed by a token, in
\* ingestion order: the window, its key, the token and the corpus.
RECURSIVE TransitionsFrom(_, _)
TransitionsFrom(j, q) ==
    IF j > Len(Corpora) THEN <<>>
    ELSE IF q > Len(Corpora[j]) THEN TransitionsFrom(j + 1, 1)
    ELSE <<[window |-> WindowAt(j, q), key |-> Join(WindowAt(j, q), SP),
            token |-> Corpora[j][q], corpus |-> j]>> \o TransitionsFrom(j, q + 1)

Transitions == TransitionsFrom(1, 1)

\* The transitions at which a key is met for the first time, in order.
RECURSIVE FirstMeetings(_, _)
FirstMeetings(tr, seen) ==
    IF Len(tr) = 0 THEN <<>>
    ELSE IF tr[1].key \in seen THEN FirstMeetings(Tail(tr), seen)
    ELSE <<tr[1]>> \o FirstMeetings(Tail(tr), seen \cup {tr[1].key})

At(tr, key) == {x \in 1..Len(tr) : tr[x].key = key}

RECURSIVE SumCounts(_, _)
SumCounts(m, rest) ==
    IF rest = {} THEN 0
    ELSE LET x == CHOOSE y \in rest : TRUE
         IN m[x] + SumCounts(m, rest \ {x})

Occurs(seq, val) == Cardinality({x \in 1..Len(seq) : seq[x] = val})

NoDuplicates(seq) == \A x, y \in 1..Len(seq) : seq[x] = seq[y] => x = y

Written == origin = "WriteModel"

\* The body lines of the model file, each as its space-separated fields.
BodyFields(l) == Split(file[l + 1], SP)

\* The tokens of what Generate has emitted so far, or returned.
GenTokens == Split(IF pc = "done" THEN result ELSE Join(words, SP), SP)

\* =================================================================
\* C1: build, write, read gives back the frequency table of build: same
\* keys, same suffixes, same counts.
RoundTripFidelity ==
    (Written /\ pc = "loaded") => g.pairmap = c.pairmap

GenerateAtMostN ==
    pc = "done" => Len(GenTokens) <= n

\* C4: a model with an empty prefix list makes Generate report
\* ExhaustedChainError; no index is drawn from an empty range.
GenerateCalled == pc \in {"gen", "done"} \/ (pc = "panic" /\ fault # "read")

EmptyListReported ==
    (GenerateCalled /\ Len(g.prefixStorage) = 0)
        => (fault = "ExhaustedChainError" /\ fault # "Intn(len(prefixStorage))")

\* C5: a model file with a short line, an odd number of trailing fields or a
\* count that is no integer is rejected: the read aborts, no model is returned.
Malformed(f) ==
    /\ Len(f) >= 1
    /\ Atoi(f[1]).ok
    /\ \E l \in 2..Len(f) :
          LET fields == Fields(f[l])
              order == Atoi(f[1]).val
          IN \/ Len(fields) < order
             \/ (Len(fields) - order) % 2 = 1
             \/ \E x \in (order + 1)..Len(fields) :
                   (x - order) % 2 = 0 /\ ~Atoi(fields[x]).ok

MalformedRejected ==
    (Malformed(file) /\ pc # "filed") => (pc = "panic" /\ fault = "read")

\* C6: with a written and loaded model and n > k, every emitted token after
\* the first k is a suffix recorded (count >= 1) under the key of the k tokens
\* before it, and the first k tokens are those of a listed prefix.
GeneratedFollowsTable ==
    (Written /\ pc \in {"gen", "done"} /\ n > g.prefixLen) =>
        LET toks == GenTokens
            k == g.prefixLen
        IN /\ \E x \in 1..Len(g.prefixStorage) :
                 SubSeq(toks, 1, k) = Split(g.prefixStorage[x], SP)
           /\ \A x \in (k + 1)..Len(toks) :
                 LET key == Join(SubSeq(toks, x - k, x - 1), SP)
                 IN /\ key \in DOMAIN g.pairmap
                    /\ toks[x] \in DOMAIN g.pairmap[key]
                    /\ g.pairmap[key][toks[x]] >= 1

\* Generate returned after two draws that moved the window to another key.
WitnessGeneratedWalk ==
    /\ Written /\ pc = "done" /\ n > g.prefixLen
    /\ Len(GenTokens) >= g.prefixLen + 2
    /\ Join(SubSeq(GenTokens, 1, g.prefixLen), SP) #
           Join(SubSeq(GenTokens, 2, g.prefixLen + 1), SP)

\* C7: for every key of the table, the counts of its suffixes add up to the
\* number of positions, over all corpora, where the window (restarted empty
\* for each corpus) was that key.
SuffixCountsSumToOccurrences ==
    pc \in {"idle", "build"} =>
        LET tr == Transitions
        IN /\ DOMAIN c.pairmap = {tr[x].key : x \in 1..Len(tr)}
           /\ \A key \in DOMAIN c.pairmap :
                 SumCounts(c.pairmap[key], DOMAIN c.pairmap[key]) =
                     Cardinality(At(tr, key))

\* Two corpora are ingested, the second longer than one token, and some key
\* has been followed by a token in both.
WitnessTwoCorpora ==
    /\ pc = "idle" /\ Len(c.text) = 2
    /\ Len(c.text[1]) >= 1 /\ Len(c.text[2]) >= 2
    /\ LET tr == Transitions
       IN \E x, y \in 2..Len(tr) :
             tr[x].key = tr[y].key /\ tr[x].corpus # tr[y].corpus

\* C8: in every state a key is in the table iff it is exactly once in
\* prefixStorage, which has no duplicates; for the chain being built and for
\* the chain that was read.
InTableIffOnce(ch) ==
    /\ NoDuplicates(ch.prefixStorage)
    /\ \A key \in (DOMAIN ch.pairmap) \cup {ch.prefixStorage[x] : x \in 1..Len(ch.prefixStorage)} :
          key \in DOMAIN ch.pairmap <=> Occurs(ch.prefixStorage, key) = 1

CountsAtLeastOne ==
    /\ \A key \in DOMAIN c.pairmap : \A s \in DOMAIN c.pairmap[key] : c.pairmap[key][s] >= 1
    /\ \A key \in DOMAIN g.pairmap : \A s \in DOMAIN g.pairmap[key] : g.pairmap[key][s] >= 1
    /\ fault # "Intn(len(keys))"

\* C10: the line of every key lists each suffix recorded for it in any corpus
\* exactly once, with the number of times it followed the key in all corpora.
LinesHoldCumulativeCounts ==
    (Written /\ pc = "filed") =>
        LET tr == Transitions
            met == FirstMeetings(tr, {})
        IN /\ Len(file) - 1 = Len(met)
           /\ \A l \in 1..Len(met) :
                 LET fields == BodyFields(l)
                     k == c.prefixLen
                     pairs == (Len(fields) - k) \div 2
                     at == At(tr, met[l].key)
                 IN /\ Len(fields) = k + 2 * pairs
                    /\ pairs = Cardinality({tr[x].token : x \in at})
                    /\ \A x \in at :
                          \E y \in 1..pairs :
                             /\ fields[k + 2 * y - 1] = tr[x].token
                             /\ Atoi(fields[k + 2 * y]) =
                                   [ok |-> TRUE,
                                    val |-> Cardinality({z \in at : tr[z].token = tr[x].token})]

\* The line of the empty window was printed while replaying the first corpus
\* and carries a suffix that only the second corpus supplied.
WitnessLateSuffix ==
    /\ Written /\ pc = "filed"
    /\ Len(c.text) = 2 /\ Len(c.text[1]) >= 1 /\ Len(c.text[2]) >= 1
    /\ c.text[1][1] # c.text[2][1]
    /\ Len(BodyFields(1)) = c.prefixLen + 4

====
